---- MODULE Spec2Model ----
(***************************************************************************)
(* The DCUtR (direct connection upgrade through relay) Behaviour of        *)
(* protocols/dcutr/src/behaviour.rs, driven by the swarm and by the        *)
(* per-connection handlers.                                                *)
(*                                                                         *)
(* The callbacks of the Behaviour are operators on the action queue; the   *)
(* actions of the specification are the swarm and the handlers calling     *)
(* them.                                                                   *)
(*                                                                         *)
(* Spec drives the side that accepted a relayed connection through its     *)
(* retries, ListenerSpec the side that dialed through the relay,           *)
(* AddressSpec the first notification of both sides while the external     *)
(* addresses change, and DialSpec the negotiations of both sides with      *)
(* every direct dial failing.  An operator named X_Variant next to X is a  *)
(* slip of X that the property about X has to tell apart from it.          *)
(***************************************************************************)
EXTENDS Integers, Sequences, FiniteSets, Bags

VARIABLES
    queued_actions,      \* Behaviour::queued_actions (VecDeque, front = 1)
    panicked,            \* a callback of the Behaviour has panicked
    external_addresses,  \* PollParameters::external_addresses()
    connections,         \* swarm: established connections, index = ConnectionId,
                         \* each with the prototype of its handler
    in_flight,           \* swarm/handlers: bag of returned actions not yet answered
    inbound_count,       \* handlers: inbound Connect requests received so far
    addr_changes,        \* number of changes of external_addresses so far
    queue_notes,         \* history, parallel to queued_actions: the connection each
                         \* action is about and external_addresses at its enqueue
    emitted,             \* history: emitted[c] = the queued actions about
                         \* connection c that poll has taken, in order
    last_call            \* history: the call of the Behaviour made by the last step

vars == <<queued_actions, panicked, external_addresses, connections, in_flight,
          inbound_count, addr_changes, queue_notes, emitted, last_call>>

----------------------------------------------------------------------------
(* Bounds of the model *)

MaxConns == 2
MaxInbound == 1
MaxAddrChanges == 1

----------------------------------------------------------------------------
(* Peers and addresses *)

Peers == {"A", "B"}

local_peer_id == "L"

Component(proto, arg) == [proto |-> proto, arg |-> arg]

P2pCircuit == Component("P2pCircuit", "")

P2p(peer) == Component("P2p", peer)

\* Multiaddr::with
With(addr, component) == Append(addr, component)

\* a direct address of a host
DirectAddr(host) == <<Component("Ip4", host), Component("Tcp", "4001")>>

\* an address of a host reached through the relay R
CircuitAddr(host) == With(With(DirectAddr("R"), P2pCircuit), P2p(host))

\* local_addr.iter().any(|p| p == Protocol::P2pCircuit)
ContainsP2pCircuit(addr) == \E i \in 1..Len(addr) : addr[i] = P2pCircuit

\* the addresses the local node accepts connections on
ListenAddrs == {DirectAddr(local_peer_id), With(DirectAddr("R"), P2pCircuit)}

\* the values external_addresses() takes
ExternalAddressChoices ==
    { <<>>,
      <<DirectAddr("X1")>>,
      <<DirectAddr("X1"), DirectAddr("X2")>> }

\* what the swarm knows when the first connection comes: the application waits
\* for its observed address first
InitialExternalAddresses == { <<DirectAddr("X1")>> }

\* the address lists a remote reports in its Connect message
RemoteAddrLists(peer) == { <<DirectAddr(peer)>> }

----------------------------------------------------------------------------
(* Values of the program's types *)

Some(v) == [tag |-> "Some", v |-> v]

None == [tag |-> "None"]

Listener(local_addr, send_back_addr) ==
    [type |-> "Listener", local_addr |-> local_addr, send_back_addr |-> send_back_addr]

Dialer(address) == [type |-> "Dialer", address |-> address]

One(connection_id) == [One |-> connection_id]

Connect(obs_addrs, attempt) ==
    [type |-> "Connect", obs_addrs |-> obs_addrs, attempt |-> attempt]

AcceptInboundConnect(inbound_connect, obs_addrs) ==
    [type |-> "AcceptInboundConnect", inbound_connect |-> inbound_connect,
     obs_addrs |-> obs_addrs]

InboundConnectReq(inbound_connect, remote_addr) ==
    [type |-> "InboundConnectReq", inbound_connect |-> inbound_connect,
     remote_addr |-> remote_addr]

InboundConnectNeg(remote_addrs) ==
    [type |-> "InboundConnectNeg", remote_addrs |-> remote_addrs]

OutboundConnectNeg(remote_addrs, attempt) ==
    [type |-> "OutboundConnectNeg", remote_addrs |-> remote_addrs, attempt |-> attempt]

InitiateDirectConnectionUpgrade(remote_peer_id, local_relayed_addr) ==
    [type |-> "InitiateDirectConnectionUpgrade", remote_peer_id |-> remote_peer_id,
     local_relayed_addr |-> local_relayed_addr]

RemoteInitiatedDirectConnectionUpgrade(remote_peer_id, remote_relayed_addr) ==
    [type |-> "RemoteInitiatedDirectConnectionUpgrade", remote_peer_id |-> remote_peer_id,
     remote_relayed_addr |-> remote_relayed_addr]

\* Event::DirectConnectionUpgradeSucceeded ("TODO: Emit")
DirectConnectionUpgradeSucceeded == [type |-> "DirectConnectionUpgradeSucceeded"]

DirectConnectionUpgradeFailed(remote_peer_id) ==
    [type |-> "DirectConnectionUpgradeFailed", remote_peer_id |-> remote_peer_id]

RoleInitiator(attempt, relay_connection_id) ==
    [type |-> "Initiator", attempt |-> attempt, relay_connection_id |-> relay_connection_id]

RoleListener == [type |-> "Listener"]

UnknownConnection == [type |-> "UnknownConnection"]

DirectConnection(role) == [type |-> "DirectConnection", role |-> role]

NotifyHandler(peer_id, handler, event) ==
    [type |-> "NotifyHandler", peer_id |-> peer_id, handler |-> handler, event |-> event]

GenerateEvent(event) == [type |-> "GenerateEvent", event |-> event]

DialOpts(peer_id, addresses, condition) ==
    [peer_id |-> peer_id, addresses |-> addresses, condition |-> condition]

Dial(opts, handler) == [type |-> "Dial", opts |-> opts, handler |-> handler]

Ready(action) == [tag |-> "Ready", action |-> action]

Pending == [tag |-> "Pending"]

PollParameters(addrs, peer) == [external_addresses |-> addrs, local_peer_id |-> peer]

----------------------------------------------------------------------------
(* The Behaviour *)

MAX_ATTEMPTS == 3

\* Behaviour::new
new == <<>>

\* Behaviour::new_handler
new_handler == UnknownConnection

\* ConnectedPoint::Listener { local_addr, .. }
\*     if local_addr.iter().any(|p| p == Protocol::P2pCircuit)
IsRelayedInbound_AnyListener(connected_point) == connected_point.type = "Listener"

IsRelayedInbound(connected_point) ==
    /\ connected_point.type = "Listener"
    /\ ContainsP2pCircuit(connected_point.local_addr)

\* the two push_back of the relayed inbound arm
StartUpgrade_DialsToo(peer_id, connection_id, local_addr) ==
    << Dial(DialOpts(peer_id, <<>>, "Always"), DirectConnection(RoleListener)),
       NotifyHandler(peer_id, One(connection_id), Connect(<<>>, 1)),
       GenerateEvent(InitiateDirectConnectionUpgrade(peer_id, local_addr)) >>

StartUpgrade_FirstConnection(peer_id, connection_id, local_addr) ==
    << NotifyHandler(peer_id, One(1), Connect(<<>>, 1)),
       GenerateEvent(InitiateDirectConnectionUpgrade(peer_id, local_addr)) >>

StartUpgrade_EventFirst(peer_id, connection_id, local_addr) ==
    << GenerateEvent(InitiateDirectConnectionUpgrade(peer_id, local_addr)),
       NotifyHandler(peer_id, One(connection_id), Connect(<<>>, 1)) >>

StartUpgrade(peer_id, connection_id, local_addr) ==
    << NotifyHandler(peer_id, One(connection_id), Connect(<<>>, 1)),
       GenerateEvent(InitiateDirectConnectionUpgrade(peer_id, local_addr)) >>

\* _ => {}
OtherConnection_Succeeded(q, peer_id, connection_id, connected_point) ==
    IF connected_point.type = "Dialer"
    THEN Append(q, GenerateEvent(DirectConnectionUpgradeSucceeded))
    ELSE q

OtherConnection(q, peer_id, connection_id, connected_point) == q

inject_connection_established(q, peer_id, connection_id, connected_point) ==
    IF IsRelayedInbound(connected_point)
    THEN q \o StartUpgrade(peer_id, connection_id, connected_point.local_addr)
    ELSE OtherConnection(q, peer_id, connection_id, connected_point)

\* the call panics on peer_id.expect(..)
inject_dial_failure_panics(peer_id, handler) ==
    /\ handler.type = "DirectConnection"
    /\ handler.role.type = "Initiator"
    /\ peer_id = None

\* if attempt < 3
ShouldRetry_Inclusive(attempt) == attempt <= MAX_ATTEMPTS

ShouldRetry_Always(attempt) == TRUE

ShouldRetry_OneLess(attempt) == attempt < MAX_ATTEMPTS - 1

ShouldRetry(attempt) == attempt < MAX_ATTEMPTS

\* attempt: attempt + 1
NextAttempt_Same(attempt) == attempt

NextAttempt(attempt) == attempt + 1

\* handler: NotifyHandler::One(relay_connection_id)
RetryTarget_First(relay_connection_id) == One(1)

RetryTarget(relay_connection_id) == One(relay_connection_id)

\* the push_back of the retry
Retry_Dropped(q, peer_id, attempt, relay_connection_id) == q

Retry(q, peer_id, attempt, relay_connection_id) ==
    Append(q, NotifyHandler(peer_id, RetryTarget(relay_connection_id),
                            Connect(<<>>, NextAttempt(attempt))))

\* _ => {}
OtherPrototype_Reported(q, peer_id, handler) ==
    IF peer_id = None
    THEN q
    ELSE Append(q, GenerateEvent(DirectConnectionUpgradeFailed(peer_id.v)))

OtherPrototype(q, peer_id, handler) == q

inject_dial_failure(q, peer_id, handler) ==
    IF handler.type = "DirectConnection" /\ handler.role.type = "Initiator"
    THEN IF peer_id = None
         THEN q
         ELSE IF ShouldRetry(handler.role.attempt)
              THEN Retry(q, peer_id.v, handler.role.attempt,
                         handler.role.relay_connection_id)
              ELSE Append(q, GenerateEvent(DirectConnectionUpgradeFailed(peer_id.v)))
    ELSE OtherPrototype(q, peer_id, handler)

\* the two push_back of the InboundConnectReq arm
AcceptUpgrade_RemoteAddr(event_source, connection, inbound_connect, remote_addr) ==
    << NotifyHandler(event_source, One(connection),
                     AcceptInboundConnect(inbound_connect, <<remote_addr>>)),
       GenerateEvent(RemoteInitiatedDirectConnectionUpgrade(event_source, remote_addr)) >>

AcceptUpgrade_EventFirst(event_source, connection, inbound_connect, remote_addr) ==
    << GenerateEvent(RemoteInitiatedDirectConnectionUpgrade(event_source, remote_addr)),
       NotifyHandler(event_source, One(connection),
                     AcceptInboundConnect(inbound_connect, <<>>)) >>

AcceptUpgrade(event_source, connection, inbound_connect, remote_addr) ==
    << NotifyHandler(event_source, One(connection),
                     AcceptInboundConnect(inbound_connect, <<>>)),
       GenerateEvent(RemoteInitiatedDirectConnectionUpgrade(event_source, remote_addr)) >>

\* DialOpts::peer_id(event_source).addresses(remote_addrs)
\*     .condition(dial_opts::PeerCondition::Always).build()
DirectDialOpts_UnknownPeer(event_source, remote_addrs) ==
    DialOpts("", remote_addrs, "Always")

DirectDialOpts_DefaultCondition(event_source, remote_addrs) ==
    DialOpts(event_source, remote_addrs, "Disconnected")

DirectDialOpts(event_source, remote_addrs) ==
    DialOpts(event_source, remote_addrs, "Always")

\* handler::Role::Initiator { attempt: attempt, relay_connection_id: connection }
InitiatorRole_Incremented(attempt, connection) == RoleInitiator(attempt + 1, connection)

InitiatorRole(attempt, connection) == RoleInitiator(attempt, connection)

inject_event(q, event_source, connection, handler_event) ==
    CASE handler_event.type = "InboundConnectReq" ->
           q \o AcceptUpgrade(event_source, connection, handler_event.inbound_connect,
                              handler_event.remote_addr)
      [] handler_event.type = "InboundConnectNeg" ->
           Append(q, Dial(DirectDialOpts(event_source, handler_event.remote_addrs),
                          DirectConnection(RoleListener)))
      [] handler_event.type = "OutboundConnectNeg" ->
           Append(q, Dial(DirectDialOpts(event_source, handler_event.remote_addrs),
                          DirectConnection(InitiatorRole(handler_event.attempt,
                                                         connection))))

\* the action carries obs_addrs: NotifyHandler of Connect or AcceptInboundConnect
CarriesObsAddrs(action) ==
    /\ action.type = "NotifyHandler"
    /\ action.event.type \in {"Connect", "AcceptInboundConnect"}

\* a.addr.with(Protocol::P2p((*poll_parameters.local_peer_id()).into()))
ObservedAddr_Bare(addr, peer_id) == addr

ObservedAddr(addr, peer_id) == With(addr, P2p(peer_id))

\* external_addresses().map(|a| ..).collect()
ObservedAddrs(poll_parameters) ==
    [i \in 1..Len(poll_parameters.external_addresses) |->
        ObservedAddr(poll_parameters.external_addresses[i],
                     poll_parameters.local_peer_id)]

\* "Set obs addresses."
SetObsAddrs_Keep(action, poll_parameters) == action

SetObsAddrs(action, poll_parameters) ==
    IF CarriesObsAddrs(action)
    THEN [action EXCEPT !.event.obs_addrs = ObservedAddrs(poll_parameters)]
    ELSE action

\* the index of the element pop_front removes
PopIndex_Back(q) == Len(q)

PopIndex(q) == 1

RemoveAt(q, i) == SubSeq(q, 1, i - 1) \o SubSeq(q, i + 1, Len(q))

poll(q, poll_parameters) ==
    IF q # <<>>
    THEN [ret |-> Ready(SetObsAddrs(q[PopIndex(q)], poll_parameters)),
          queued_actions |-> RemoveAt(q, PopIndex(q))]
    ELSE [ret |-> Pending, queued_actions |-> q]

----------------------------------------------------------------------------
(* The swarm and the handlers calling the Behaviour *)

Init ==
    /\ queued_actions = new
    /\ panicked = FALSE
    /\ external_addresses \in InitialExternalAddresses
    /\ connections = <<>>
    /\ in_flight = EmptyBag
    /\ inbound_count = 0
    /\ addr_changes = 0
    /\ queue_notes = <<>>
    /\ emitted = <<>>
    /\ last_call = [fn |-> "new"]

\* the callback, called about connection c, has left the queue q
Enqueue(q, c) ==
    /\ queued_actions' = q
    /\ queue_notes' = queue_notes \o
           [i \in 1..(Len(q) - Len(queued_actions)) |->
               [about |-> c, external_addresses |-> external_addresses]]

\* the address of the remote end of an established connection
RemoteAddrOf(connected_point) ==
    IF connected_point.type = "Listener"
    THEN connected_point.send_back_addr
    ELSE connected_point.address

\* handler: the prototype the swarm builds the handler of the connection from
CallConnectionEstablished(peer_id, connected_point, handler) ==
    LET connection_id == Len(connections) + 1 IN
    /\ connections' = Append(connections,
                             [peer_id |-> peer_id, connected_point |-> connected_point,
                              handler |-> handler])
    /\ emitted' = Append(emitted, <<>>)
    /\ Enqueue(inject_connection_established(queued_actions, peer_id, connection_id,
                                             connected_point), connection_id)
    /\ last_call' = [fn |-> "inject_connection_established", peer_id |-> peer_id,
                     connection_id |-> connection_id, connected_point |-> connected_point]

\* the connection a failed dial is about, 0 when it is none
AboutOf(handler) ==
    IF handler.type = "DirectConnection" /\ handler.role.type = "Initiator"
    THEN handler.role.relay_connection_id
    ELSE 0

CallDialFailure(peer_id, handler) ==
    /\ panicked' = inject_dial_failure_panics(peer_id, handler)
    /\ Enqueue(inject_dial_failure(queued_actions, peer_id, handler), AboutOf(handler))
    /\ last_call' = [fn |-> "inject_dial_failure", peer_id |-> peer_id,
                     handler |-> handler]

CallEvent(event_source, connection, handler_event) ==
    /\ Enqueue(inject_event(queued_actions, event_source, connection, handler_event),
               connection)
    /\ last_call' = [fn |-> "inject_event", event_source |-> event_source,
                     connection |-> connection, handler_event |-> handler_event]

\* a remote peer connects to one of the listen addresses
IncomingConnection ==
    /\ ~panicked
    /\ Len(connections) < MaxConns
    /\ \E peer_id \in Peers, local_addr \in ListenAddrs :
         CallConnectionEstablished(peer_id,
             Listener(local_addr,
                      IF ContainsP2pCircuit(local_addr)
                      THEN CircuitAddr(peer_id) ELSE DirectAddr(peer_id)),
             new_handler)
    /\ UNCHANGED <<panicked, external_addresses, in_flight, inbound_count, addr_changes>>

\* the peer the swarm reports for a dial: the one its DialOpts were built for
get_peer_id(opts) == IF opts.peer_id \in Peers THEN Some(opts.peer_id) ELSE None

\* the swarm awaits an answer to these: a handler's, or the outcome of the dial
Answered(action) == action.type \in {"NotifyHandler", "Dial"}

\* the swarm polls the Behaviour and carries out the action it gets
SwarmPoll ==
    /\ ~panicked
    /\ LET poll_parameters == PollParameters(external_addresses, local_peer_id)
           r == poll(queued_actions, poll_parameters)
           k == PopIndex(queued_actions)
       IN /\ queued_actions' = r.queued_actions
          /\ last_call' = [fn |-> "poll", poll_parameters |-> poll_parameters,
                           ret |-> r.ret,
                           enqueued_with |-> IF r.ret.tag = "Ready"
                                             THEN queue_notes[k].external_addresses
                                             ELSE <<>>]
          /\ IF r.ret.tag = "Ready"
             THEN /\ queue_notes' = RemoveAt(queue_notes, k)
                  /\ emitted' = [emitted EXCEPT ![queue_notes[k].about] =
                                    Append(@, queued_actions[k])]
                  /\ in_flight' = IF Answered(r.ret.action)
                                  THEN in_flight (+) SetToBag({r.ret.action})
                                  ELSE in_flight
             ELSE UNCHANGED <<queue_notes, emitted, in_flight>>
    /\ UNCHANGED <<panicked, external_addresses, connections, inbound_count,
                   addr_changes>>

\* the handler has run the outbound handshake it was told to run by Connect
HandlerOutboundConnectNeg ==
    /\ ~panicked
    /\ \E a \in BagToSet(in_flight) :
         /\ a.type = "NotifyHandler" /\ a.event.type = "Connect"
         /\ in_flight' = in_flight (-) SetToBag({a})
         /\ \E remote_addrs \in RemoteAddrLists(a.peer_id) :
              CallEvent(a.peer_id, a.handler.One,
                        OutboundConnectNeg(remote_addrs, a.event.attempt))
    /\ UNCHANGED <<panicked, external_addresses, connections, inbound_count,
                   addr_changes, emitted>>

\* the remote, which sees a relayed inbound connection, opens a substream on it
\* and sends Connect: here the connection is one dialed through the relay
HandlerInboundConnectReq ==
    /\ ~panicked
    /\ inbound_count < MaxInbound
    /\ \E c \in 1..Len(connections) :
         /\ connections[c].connected_point.type = "Dialer"
         /\ ContainsP2pCircuit(RemoteAddrOf(connections[c].connected_point))
         /\ inbound_count' = inbound_count + 1
         /\ CallEvent(connections[c].peer_id, c,
                      InboundConnectReq(inbound_count + 1,
                                        RemoteAddrOf(connections[c].connected_point)))
    /\ UNCHANGED <<panicked, external_addresses, connections, in_flight, addr_changes,
                   emitted>>

\* the handler has run the inbound handshake it was told to accept
HandlerInboundConnectNeg ==
    /\ ~panicked
    /\ \E a \in BagToSet(in_flight) :
         /\ a.type = "NotifyHandler" /\ a.event.type = "AcceptInboundConnect"
         /\ in_flight' = in_flight (-) SetToBag({a})
         /\ \E remote_addrs \in RemoteAddrLists(a.peer_id) :
              CallEvent(a.peer_id, a.handler.One, InboundConnectNeg(remote_addrs))
    /\ UNCHANGED <<panicked, external_addresses, connections, inbound_count,
                   addr_changes, emitted>>

\* a dial the Behaviour asked for fails
DialFails ==
    /\ ~panicked
    /\ \E a \in BagToSet(in_flight) :
         /\ a.type = "Dial"
         /\ in_flight' = in_flight (-) SetToBag({a})
         /\ CallDialFailure(get_peer_id(a.opts), a.handler)
    /\ UNCHANGED <<external_addresses, connections, inbound_count, addr_changes,
                   emitted>>

\* a dial the Behaviour asked for reaches the peer
DialSucceeds ==
    /\ ~panicked
    /\ Len(connections) < MaxConns
    /\ \E a \in BagToSet(in_flight) :
         /\ a.type = "Dial"
         /\ in_flight' = in_flight (-) SetToBag({a})
         /\ \E k \in 1..Len(a.opts.addresses) :
              CallConnectionEstablished(a.opts.peer_id, Dialer(a.opts.addresses[k]),
                                        a.handler)
    /\ UNCHANGED <<panicked, external_addresses, inbound_count, addr_changes>>

\* a dial of the application (Swarm::dial, handler from new_handler) fails
UserDialFails ==
    /\ ~panicked
    /\ \E peer_id \in {None} \cup {Some(p) : p \in Peers} :
         CallDialFailure(peer_id, new_handler)
    /\ UNCHANGED <<external_addresses, connections, in_flight, inbound_count,
                   addr_changes, emitted>>

\* a dial of the application reaches the peer, directly or through the relay
UserDialSucceeds ==
    /\ ~panicked
    /\ Len(connections) < MaxConns
    /\ \E peer_id \in Peers :
         \E address \in {DirectAddr(peer_id), CircuitAddr(peer_id)} :
            CallConnectionEstablished(peer_id, Dialer(address), new_handler)
    /\ UNCHANGED <<panicked, external_addresses, in_flight, inbound_count, addr_changes>>

\* a connection closes: inject_connection_closed is todo!()
ConnectionClosed ==
    /\ ~panicked
    /\ Len(connections) > 0
    /\ last_call' = [fn |-> "inject_connection_closed"]
    /\ panicked' = TRUE
    /\ UNCHANGED <<queued_actions, external_addresses, connections, in_flight,
                   inbound_count, addr_changes, queue_notes, emitted>>

\* the swarm learns another set of external addresses
ExternalAddressesChange ==
    /\ ~panicked
    /\ addr_changes < MaxAddrChanges
    /\ \E addrs \in ExternalAddressChoices \ {external_addresses} :
         external_addresses' = addrs
    /\ addr_changes' = addr_changes + 1
    /\ last_call' = [fn |-> "none"]
    /\ UNCHANGED <<queued_actions, panicked, connections, in_flight, inbound_count,
                   queue_notes, emitted>>

\* the side that accepted the relayed connection and drives the upgrade, with the
\* external addresses as first observed
Next ==
    \/ IncomingConnection
    \/ SwarmPoll
    \/ HandlerOutboundConnectNeg
    \/ DialFails
    \/ DialSucceeds
    \/ UserDialFails
    \/ UserDialSucceeds
    \/ ConnectionClosed

Spec == Init /\ [][Next]_vars

\* the side that dialed through the relay and answers the upgrade, next to
\* upgrades the local side starts
ListenerNext ==
    \/ IncomingConnection
    \/ UserDialSucceeds
    \/ UserDialFails
    \/ SwarmPoll
    \/ HandlerInboundConnectReq
    \/ HandlerInboundConnectNeg
    \/ DialFails
    \/ DialSucceeds

ListenerSpec == Init /\ [][ListenerNext]_vars

\* the first notification of each side, with the external addresses changing
\* between the callbacks and the polls
AddressNext ==
    \/ IncomingConnection
    \/ UserDialSucceeds
    \/ SwarmPoll
    \/ HandlerInboundConnectReq
    \/ ExternalAddressesChange

AddressSpec == Init /\ [][AddressNext]_vars

\* the negotiations of both sides, the direct dial of each failing
DialNext ==
    \/ IncomingConnection
    \/ UserDialSucceeds
    \/ SwarmPoll
    \/ HandlerOutboundConnectNeg
    \/ HandlerInboundConnectReq
    \/ HandlerInboundConnectNeg
    \/ DialFails

DialSpec == Init /\ [][DialNext]_vars

\* the upgrades the local side starts, with what keeps them going: the swarm polls
\* again and again, a handler answers the Connect it gets, a dial comes to an end
FairNext ==
    \/ IncomingConnection
    \/ SwarmPoll
    \/ HandlerOutboundConnectNeg
    \/ DialFails
    \/ DialSucceeds

FairSpec ==
    /\ Init
    /\ [][FairNext]_vars
    /\ WF_vars(SwarmPoll)
    /\ WF_vars(HandlerOutboundConnectNeg)
    /\ WF_vars(DialFails \/ DialSucceeds)

----------------------------------------------------------------------------
(* What the claims speak about *)

IsConnect(a) == a.type = "NotifyHandler" /\ a.event.type = "Connect"

IsInitiatorDial(a) ==
    /\ a.type = "Dial"
    /\ a.handler.type = "DirectConnection"
    /\ a.handler.role.type = "Initiator"

IsFailedEvent(a) ==
    a.type = "GenerateEvent" /\ a.event.type = "DirectConnectionUpgradeFailed"

\* the connected point is a Listener whose local_addr contains P2pCircuit
ListenerOnCircuit(connected_point) ==
    /\ connected_point.type = "Listener"
    /\ \E i \in 1..Len(connected_point.local_addr) :
          connected_point.local_addr[i].proto = "P2pCircuit"

\* the positions of the emitted histories, as <<connection, index>>
EmittedPositions ==
    UNION { {<<c, i>> : i \in 1..Len(emitted[c])} : c \in 1..Len(emitted) }

\* every action enqueued so far: taken by poll already, or still queued
EnqueuedActions ==
    {emitted[p[1]][p[2]] : p \in EmittedPositions}
        \cup {queued_actions[i] : i \in 1..Len(queued_actions)}

\* every action with its obs_addrs set that poll has returned and the model keeps
ReturnedActions ==
    BagToSet(in_flight)
        \cup (IF last_call.fn = "poll" /\ last_call.ret.tag = "Ready"
              THEN {last_call.ret.action} ELSE {})

\* a Connect retry for the relayed connection c
IsRetryFor(a, c) == IsConnect(a) /\ a.event.attempt > 1 /\ a.handler = One(c)

\* the number of Connect retries enqueued so far for the relayed connection c
EnqueuedRetries(c) ==
    Cardinality({p \in EmittedPositions : IsRetryFor(emitted[p[1]][p[2]], c)})
        + Cardinality({i \in 1..Len(queued_actions) : IsRetryFor(queued_actions[i], c)})

----------------------------------------------------------------------------
(* C1: with every Connect answered by at most one OutboundConnectNeg of the same
   attempt and every Dial failing at most once, the Behaviour enqueues at most 3
   Connect retries (attempt > 1) for any single relayed connection. *)
C1_RetriesBounded == \A c \in 1..Len(connections) : EnqueuedRetries(c) <= 3

\* an upgrade has run to its end: every retry made, the failure reported
C1_Witness ==
    \E c \in 1..Len(connections) :
        /\ EnqueuedRetries(c) = MAX_ATTEMPTS - 1
        /\ \E i \in 1..Len(emitted[c]) : IsFailedEvent(emitted[c][i])

(* C2: every attempt number of a queued or emitted Connect notification, and of the
   Initiator role of every Dial action, lies in 1..3. *)
C2_AttemptInRange ==
    \A a \in EnqueuedActions \cup ReturnedActions :
        /\ IsConnect(a) => a.event.attempt \in 1..3
        /\ IsInitiatorDial(a) => a.handler.role.attempt \in 1..3

\* the last attempt is under way: its Connect was returned, its Dial is in flight
C2_Witness ==
    /\ \E a \in EnqueuedActions : IsConnect(a) /\ a.event.attempt = 3
    /\ \E a \in BagToSet(in_flight) : IsInitiatorDial(a) /\ a.handler.role.attempt = 3

\* the step calls inject_dial_failure with a DirectConnection Initiator prototype
\* and a known peer
InitiatorDialFailed(call) ==
    /\ call.fn = "inject_dial_failure"
    /\ call.handler.type = "DirectConnection"
    /\ call.handler.role.type = "Initiator"
    /\ call.peer_id # None

Last(q) == q[Len(q)]

(* C3: a DialFailure of DirectConnection{Initiator{attempt, relay_connection_id}}
   enqueues exactly one action: if attempt < 3 a NotifyHandler Connect with
   attempt + 1 (no DirectConnectionUpgradeFailed), otherwise GenerateEvent
   DirectConnectionUpgradeFailed naming the peer of the failed dial (no Connect). *)
C3_DialFailureEnqueues ==
    [][ InitiatorDialFailed(last_call') =>
          /\ Len(queued_actions') = Len(queued_actions) + 1
          /\ SubSeq(queued_actions', 1, Len(queued_actions)) = queued_actions
          /\ IF last_call'.handler.role.attempt < 3
             THEN /\ IsConnect(Last(queued_actions'))
                  /\ Last(queued_actions').event.attempt
                        = last_call'.handler.role.attempt + 1
             ELSE Last(queued_actions')
                    = GenerateEvent(DirectConnectionUpgradeFailed(last_call'.peer_id.v))
      ]_vars

\* the dial of attempt 3 has just failed, after the one of attempt 1 led to a
\* Connect of attempt 2
C3_Witness ==
    /\ InitiatorDialFailed(last_call)
    /\ last_call.handler.role.attempt = 3
    /\ IsFailedEvent(Last(queued_actions))
    /\ \E a \in EnqueuedActions : IsConnect(a) /\ a.event.attempt = 2

\* the upgrade of the relayed connection c stays on c
OnConnection(a, c) ==
    /\ IsConnect(a) => a.handler = One(c)
    /\ IsInitiatorDial(a) => a.handler.role.relay_connection_id = c

(* C4: every Connect notification of the upgrade started on the relayed connection
   c is addressed to NotifyHandler::One(c) and every Dial action of it carries
   relay_connection_id = c, also with several upgrades interleaved. *)
C4_SameRelayConnection ==
    /\ \A c \in 1..Len(emitted) : \A i \in 1..Len(emitted[c]) :
          OnConnection(emitted[c][i], c)
    /\ \A i \in 1..Len(queued_actions) :
          OnConnection(queued_actions[i], queue_notes[i].about)

\* two relayed connections of one peer are retrying at the same time
C4_Witness ==
    /\ Len(connections) >= 2
    /\ connections[1].peer_id = connections[2].peer_id
    /\ \E i \in 1..Len(emitted[1]) :
          IsConnect(emitted[1][i]) /\ emitted[1][i].event.attempt = 3
    /\ \E i \in 1..Len(emitted[2]) :
          IsInitiatorDial(emitted[2][i]) /\ emitted[2][i].handler.role.attempt = 2
    /\ \E i \in 1..Len(queued_actions) :
          IsConnect(queued_actions[i]) /\ queued_actions[i].event.attempt = 3
                /\ queue_notes[i].about = 2
    /\ \E a \in BagToSet(in_flight) : IsConnect(a) /\ a.handler = One(1)

\* what the application and the dialer see of the initiator side of an upgrade:
\* the events and the direct dials
Outcome(kind, attempt, peer) == [kind |-> kind, attempt |-> attempt, peer |-> peer]

OutcomeOf(a) ==
    IF IsInitiatorDial(a)
    THEN Outcome("Dial", a.handler.role.attempt, a.opts.peer_id)
    ELSE Outcome(a.event.type, 0, a.event.remote_peer_id)

IsOutcome(a) == IsInitiatorDial(a) \/ a.type = "GenerateEvent"

Outcomes(log) ==
    LET kept == SelectSeq(log, IsOutcome)
    IN [i \in 1..Len(kept) |-> OutcomeOf(kept[i])]

\* the outcomes of an upgrade with the peer in which every direct dial fails
AllDialsFail(peer) ==
    << Outcome("InitiateDirectConnectionUpgrade", 0, peer),
       Outcome("Dial", 1, peer),
       Outcome("Dial", 2, peer),
       Outcome("Dial", 3, peer),
       Outcome("DirectConnectionUpgradeFailed", 0, peer) >>

IsPrefix(s, t) == Len(s) <= Len(t) /\ SubSeq(t, 1, Len(s)) = s

\* DirectConnectionUpgradeFailed has been enqueued for the upgrade on c
FailedEnqueued(c) ==
    \/ \E i \in 1..Len(emitted[c]) : IsFailedEvent(emitted[c][i])
    \/ \E i \in 1..Len(queued_actions) :
          IsFailedEvent(queued_actions[i]) /\ queue_notes[i].about = c

\* the dial of attempt 3 of the upgrade on c was returned and is over
LastDialOver(c) ==
    /\ \E i \in 1..Len(emitted[c]) :
          IsInitiatorDial(emitted[c][i]) /\ emitted[c][i].handler.role.attempt = 3
    /\ \A a \in BagToSet(in_flight) :
          IsInitiatorDial(a) => a.handler.role.relay_connection_id # c

(* C5: for the upgrade on a relayed connection the Behaviour emits, in this order,
   InitiateDirectConnectionUpgrade, the Dial actions of attempts 1, 2 and 3, then one
   DirectConnectionUpgradeFailed naming the remote peer; what it has emitted so far
   is a prefix of that, and DirectConnectionUpgradeFailed is never enqueued before
   the dial of attempt 3 has failed. *)
C5_AllDialsFailOrder ==
    \A c \in 1..Len(connections) :
        ListenerOnCircuit(connections[c].connected_point) =>
            /\ IsPrefix(Outcomes(emitted[c]), AllDialsFail(connections[c].peer_id))
            /\ FailedEnqueued(c) => LastDialOver(c)

\* every dial of an upgrade has failed and the failure has been emitted
C5_Witness ==
    \E c \in 1..Len(connections) :
        /\ ListenerOnCircuit(connections[c].connected_point)
        /\ Outcomes(emitted[c]) = AllDialsFail(connections[c].peer_id)

\* the action without the addresses poll sets
Unset(a) == IF CarriesObsAddrs(a) THEN [a EXCEPT !.event.obs_addrs = <<>>] ELSE a

(* C6: poll returns the actions in the order of their enqueue, each once: it removes
   and returns the front of queued_actions when there is one, and returns Pending,
   leaving the queue as it is, exactly when there is none; the callbacks only
   append. *)
C6_PollFifo ==
    [][ IF last_call'.fn = "poll"
        THEN IF queued_actions = <<>>
             THEN last_call'.ret = Pending /\ queued_actions' = queued_actions
             ELSE /\ last_call'.ret.tag = "Ready"
                  /\ last_call'.ret.action.type = Head(queued_actions).type
                  /\ Unset(last_call'.ret.action) = Unset(Head(queued_actions))
                  /\ queued_actions' = Tail(queued_actions)
        ELSE IsPrefix(queued_actions, queued_actions')
      ]_vars

\* poll has returned a whole upgrade and now finds the queue empty
C6_Witness ==
    /\ last_call.fn = "poll"
    /\ last_call.ret = Pending
    /\ \E c \in 1..Len(emitted) : Len(emitted[c]) = 8

EndsWith(addr, component) == Len(addr) > 0 /\ addr[Len(addr)] = component

(* C7: every address of the obs_addrs of a Connect or AcceptInboundConnect
   notification returned by poll ends with P2p(local_peer_id), the local peer id
   of the poll parameters. *)
C7_ObsAddrsEndWithLocalPeer ==
    /\ \A a \in BagToSet(in_flight) :
          CarriesObsAddrs(a) =>
              \A i \in 1..Len(a.event.obs_addrs) :
                  EndsWith(a.event.obs_addrs[i], P2p(local_peer_id))
    /\ (last_call.fn = "poll" /\ last_call.ret.tag = "Ready"
            /\ CarriesObsAddrs(last_call.ret.action)) =>
          \A i \in 1..Len(last_call.ret.action.event.obs_addrs) :
              EndsWith(last_call.ret.action.event.obs_addrs[i],
                       P2p(last_call.poll_parameters.local_peer_id))

\* poll has just returned a notification with two observed addresses
C7_Witness ==
    /\ last_call.fn = "poll"
    /\ last_call.ret.tag = "Ready"
    /\ CarriesObsAddrs(last_call.ret.action)
    /\ Len(last_call.ret.action.event.obs_addrs) = 2

\* the external addresses, each with the P2p component of the local peer
Suffixed(addrs, peer) == [i \in 1..Len(addrs) |-> Append(addrs[i], P2p(peer))]

(* C8: the obs_addrs of a returned Connect or AcceptInboundConnect notification are
   the external addresses supplied to that poll, each suffixed with
   P2p(local_peer_id), whatever the external addresses were at enqueue time. *)
C8_ObsAddrsBoundAtPoll ==
    (last_call.fn = "poll" /\ last_call.ret.tag = "Ready"
        /\ CarriesObsAddrs(last_call.ret.action)) =>
      last_call.ret.action.event.obs_addrs
          = Suffixed(last_call.poll_parameters.external_addresses,
                     last_call.poll_parameters.local_peer_id)

\* the external addresses have changed between the enqueue and the poll
C8_Witness ==
    /\ last_call.fn = "poll"
    /\ last_call.ret.tag = "Ready"
    /\ CarriesObsAddrs(last_call.ret.action)
    /\ last_call.enqueued_with # <<>>
    /\ last_call.poll_parameters.external_addresses # <<>>
    /\ last_call.enqueued_with # last_call.poll_parameters.external_addresses
    /\ last_call.ret.action.event.obs_addrs
          # Suffixed(last_call.enqueued_with, last_call.poll_parameters.local_peer_id)

\* the step calls inject_connection_established
Established(call) == call.fn = "inject_connection_established"

(* C9: ConnectionEstablished with a Listener whose local_addr contains P2pCircuit
   appends exactly two actions, in this order: NotifyHandler to exactly
   connection_id of peer_id with Connect{attempt: 1}, then GenerateEvent
   InitiateDirectConnectionUpgrade{remote_peer_id: peer_id,
   local_relayed_addr: local_addr}. *)
C9_RelayedInboundStartsUpgrade ==
    [][ (Established(last_call') /\ ListenerOnCircuit(last_call'.connected_point)) =>
          LET n == Len(queued_actions) IN
          /\ Len(queued_actions') = n + 2
          /\ SubSeq(queued_actions', 1, n) = queued_actions
          /\ IsConnect(queued_actions'[n + 1])
          /\ queued_actions'[n + 1].peer_id = last_call'.peer_id
          /\ queued_actions'[n + 1].handler = One(last_call'.connection_id)
          /\ queued_actions'[n + 1].event.attempt = 1
          /\ queued_actions'[n + 2]
                = GenerateEvent(InitiateDirectConnectionUpgrade(
                      last_call'.peer_id, last_call'.connected_point.local_addr))
      ]_vars

\* a relayed inbound connection has just been established, with actions queued
\* before it
C9_Witness ==
    /\ Established(last_call)
    /\ ListenerOnCircuit(last_call.connected_point)
    /\ Len(queued_actions) > 2

(* C10: ConnectionEstablished with a Dialer (whatever its address), or with a
   Listener whose local_addr contains no P2pCircuit, leaves queued_actions
   unchanged. *)
C10_OtherConnectionsStartNothing ==
    [][ (Established(last_call') /\ ~ListenerOnCircuit(last_call'.connected_point)) =>
          queued_actions' = queued_actions
      ]_vars

\* a Listener connection on a direct address has just been established, with
\* actions queued, after a connection dialed through the relay
C10_Witness ==
    /\ Established(last_call)
    /\ last_call.connected_point.type = "Listener"
    /\ ~ListenerOnCircuit(last_call.connected_point)
    /\ queued_actions # <<>>
    /\ \E c \in 1..Len(connections) :
          /\ connections[c].connected_point.type = "Dialer"
          /\ \E i \in 1..Len(connections[c].connected_point.address) :
                connections[c].connected_point.address[i].proto = "P2pCircuit"

\* the step calls inject_event with a handler event of this type
Reported(call, type) == call.fn = "inject_event" /\ call.handler_event.type = type

(* C11: a handler event InboundConnectReq{inbound_connect, remote_addr} from
   (peer_id, connection_id) appends exactly two actions, in this order: NotifyHandler
   to the same (peer_id, connection_id) with AcceptInboundConnect carrying that
   inbound_connect, then GenerateEvent RemoteInitiatedDirectConnectionUpgrade
   {remote_peer_id: peer_id, remote_relayed_addr: remote_addr}. *)
C11_InboundRequestAccepted ==
    [][ Reported(last_call', "InboundConnectReq") =>
          LET n == Len(queued_actions) IN
          /\ Len(queued_actions') = n + 2
          /\ SubSeq(queued_actions', 1, n) = queued_actions
          /\ queued_actions'[n + 1].type = "NotifyHandler"
          /\ queued_actions'[n + 1].peer_id = last_call'.event_source
          /\ queued_actions'[n + 1].handler = One(last_call'.connection)
          /\ queued_actions'[n + 1].event.type = "AcceptInboundConnect"
          /\ queued_actions'[n + 1].event.inbound_connect
                = last_call'.handler_event.inbound_connect
          /\ queued_actions'[n + 2]
                = GenerateEvent(RemoteInitiatedDirectConnectionUpgrade(
                      last_call'.event_source, last_call'.handler_event.remote_addr))
      ]_vars

\* an inbound request has just come on the second connection, with the start of
\* another upgrade still queued
C11_Witness ==
    /\ Reported(last_call, "InboundConnectReq")
    /\ last_call.connection = 2
    /\ Len(queued_actions) = 4
    /\ IsConnect(queued_actions[1])

\* the actions the step has appended to the queue
Appended(q, r) == {r[i] : i \in (Len(q) + 1)..Len(r)}

(* C12: every Dial action the Behaviour enqueues is caused by an InboundConnectNeg
   or OutboundConnectNeg handler event, targets the peer that was the source of the
   event, has the remote_addrs of the event as its addresses and the dial condition
   Always. *)
C12_DialFollowsNegotiation ==
    [][ \A a \in Appended(queued_actions, queued_actions') :
          a.type = "Dial" =>
              /\ \/ Reported(last_call', "InboundConnectNeg")
                 \/ Reported(last_call', "OutboundConnectNeg")
              /\ a.opts.peer_id = last_call'.event_source
              /\ a.opts.addresses = last_call'.handler_event.remote_addrs
              /\ a.opts.condition = "Always"
      ]_vars

\* an inbound negotiation with one peer has just led to a Dial, after an outbound
\* negotiation with the other peer did
C12_Witness ==
    /\ Reported(last_call, "InboundConnectNeg")
    /\ Last(queued_actions).type = "Dial"
    /\ Last(queued_actions).opts.peer_id = last_call.event_source
    /\ \E a \in EnqueuedActions :
          IsInitiatorDial(a) /\ a.opts.peer_id # last_call.event_source

(* C13: the handler prototype of the Dial action records the negotiation that
   caused it: InboundConnectNeg gives DirectConnection{role: Listener};
   OutboundConnectNeg{remote_addrs, attempt} received on connection c gives
   DirectConnection{role: Initiator{attempt, relay_connection_id: c}}, the attempt
   as received. *)
C13_PrototypeRecordsRole ==
    [][ /\ Reported(last_call', "InboundConnectNeg") =>
              /\ Appended(queued_actions, queued_actions') = {Last(queued_actions')}
              /\ Last(queued_actions').type = "Dial"
              /\ Last(queued_actions').handler = DirectConnection(RoleListener)
        /\ Reported(last_call', "OutboundConnectNeg") =>
              /\ Appended(queued_actions, queued_actions') = {Last(queued_actions')}
              /\ Last(queued_actions').type = "Dial"
              /\ Last(queued_actions').handler
                    = DirectConnection(RoleInitiator(last_call'.handler_event.attempt,
                                                     last_call'.connection))
      ]_vars

\* the outbound negotiation of a retry on the second connection has just led to a
\* Dial, after an inbound negotiation on the first led to one
C13_Witness ==
    /\ Reported(last_call, "OutboundConnectNeg")
    /\ last_call.connection = 2
    /\ last_call.handler_event.attempt = 2
    /\ IsInitiatorDial(Last(queued_actions))
    /\ \E a \in EnqueuedActions \cup ReturnedActions :
          a.type = "Dial" /\ a.handler = DirectConnection(RoleListener)

\* the step calls inject_dial_failure with a prototype other than DirectConnection
\* with the Initiator role
OtherDialFailed(call) ==
    /\ call.fn = "inject_dial_failure"
    /\ ~(call.handler.type = "DirectConnection" /\ call.handler.role.type = "Initiator")

(* C14: a DialFailure whose handler prototype is not DirectConnection with an
   Initiator role (DirectConnection{Listener}, UnknownConnection) is ignored:
   queued_actions is unchanged, so the failure of a listener-side dial causes no
   retry and no event. *)
C14_OtherDialFailuresIgnored ==
    [][ OtherDialFailed(last_call') => queued_actions' = queued_actions ]_vars

\* the dial of the listener side has just failed, with actions of another upgrade
\* queued
C14_Witness ==
    /\ OtherDialFailed(last_call)
    /\ last_call.handler = DirectConnection(RoleListener)
    /\ last_call.peer_id # None
    /\ queued_actions # <<>>

\* an upgrade has been started on connection c
Started(c) ==
    /\ c <= Len(connections)
    /\ ListenerOnCircuit(connections[c].connected_point)

\* poll has returned DirectConnectionUpgradeFailed for the upgrade on c
FailedEmitted(c) == \E i \in 1..Len(emitted[c]) : IsFailedEvent(emitted[c][i])

\* a direct dial of the upgrade on c has established a connection
DialSucceeded(c) ==
    \E n \in 1..Len(connections) :
        /\ connections[n].handler.type = "DirectConnection"
        /\ connections[n].handler.role.type = "Initiator"
        /\ connections[n].handler.role.relay_connection_id = c

Ended(c) == Started(c) /\ (FailedEmitted(c) \/ DialSucceeded(c))

(* C15: with the Behaviour polled again and again, every Connect answered by an
   OutboundConnectNeg and every direct dial ending in a connection or in a
   DialFailure, an upgrade started on a relayed connection leads to a direct dial
   that succeeds or to DirectConnectionUpgradeFailed being emitted; from then on it
   stays ended and no Connect notification is enqueued for it. *)
C15_UpgradeTerminates ==
    /\ \A c \in 1..MaxConns : Started(c) ~> Ended(c)
    /\ [][ \A c \in 1..MaxConns :
              Ended(c) =>
                 /\ Ended(c)'
                 /\ \A a \in Appended(queued_actions, queued_actions') :
                        ~(IsConnect(a) /\ a.handler = One(c))
         ]_vars

\* an upgrade has ended in a direct connection, made by the dial of a retry
C15_Witness ==
    \E c \in 1..Len(connections) :
        /\ Started(c) /\ DialSucceeded(c)
        /\ \E i \in 1..Len(emitted[c]) :
              IsConnect(emitted[c][i]) /\ emitted[c][i].event.attempt > 1

(* C16: when a connection closes the cleanup of the Behaviour is a no-op: the
   callback completes without failing and leaves queued_actions unchanged, so the
   Behaviour keeps handling later events. *)
C16_CleanupIsNoOp ==
    [][ last_call'.fn = "inject_connection_closed" =>
          /\ ~panicked'
          /\ queued_actions' = queued_actions
      ]_vars

\* the queued actions that are about connection c
QueuedAbout(c) == {i \in 1..Len(queued_actions) : queue_notes[i].about = c}

\* the number of queued actions attributable to the peer: about its connections
QueuedFor(peer) ==
    Cardinality({i \in 1..Len(queued_actions) :
                    /\ queue_notes[i].about \in 1..Len(connections)
                    /\ connections[queue_notes[i].about].peer_id = peer})

IsAccept(a) == a.type = "NotifyHandler" /\ a.event.type = "AcceptInboundConnect"

\* the number of upgrades started on connection c so far: one by its establishment
\* as a relayed inbound connection, one by every InboundConnectReq received on it
UpgradesOn(c) ==
    (IF Started(c) THEN 1 ELSE 0)
        + Cardinality({i \in 1..Len(emitted[c]) : IsAccept(emitted[c][i])})
        + Cardinality({i \in QueuedAbout(c) : IsAccept(queued_actions[i])})

(* C17, as claimed: in every reachable state the number of queued actions
   attributable to one peer is at most a fixed constant; the constant is that of
   the reasoning behind the bound, MAX_ATTEMPTS. *)
C17_QueueBoundedPerPeer == \A peer \in Peers : QueuedFor(peer) <= MAX_ATTEMPTS

(* C17, amended: in every reachable state at most 2 queued actions per upgrade are
   about one connection, an upgrade being started by the establishment of a relayed
   inbound connection and by every InboundConnectReq; the number attributable to
   one peer grows with the number of its upgrades. *)
C17_QueueBoundedPerUpgrade ==
    \A c \in 1..Len(connections) : Cardinality(QueuedAbout(c)) <= 2 * UpgradesOn(c)

\* more than MAX_ATTEMPTS actions are queued for one peer: those of the upgrade
\* started on one of its connections and of an inbound request on the other
C17_Witness ==
    \E peer \in Peers :
        /\ QueuedFor(peer) > MAX_ATTEMPTS
        /\ \E i \in 1..Len(queued_actions) : IsConnect(queued_actions[i])
        /\ \E i \in 1..Len(queued_actions) : IsAccept(queued_actions[i])

\* the connection does not run through the relay
IsDirect(connected_point) ==
    LET addr == IF connected_point.type = "Listener"
                THEN connected_point.local_addr ELSE connected_point.address
    IN \A i \in 1..Len(addr) : addr[i].proto # "P2pCircuit"

IsInitiateEvent(a) ==
    a.type = "GenerateEvent" /\ a.event.type = "InitiateDirectConnectionUpgrade"

(* C18: when a relayed inbound connection from a peer is established while a direct
   connection to that peer exists, the Behaviour enqueues neither a Connect
   notification nor an InitiateDirectConnectionUpgrade event. *)
C18_SkipsWhenDirectExists ==
    [][ ( /\ Established(last_call')
          /\ ListenerOnCircuit(last_call'.connected_point)
          /\ \E c \in 1..Len(connections) :
                /\ connections[c].peer_id = last_call'.peer_id
                /\ IsDirect(connections[c].connected_point) ) =>
          \A a \in Appended(queued_actions, queued_actions') :
              ~IsConnect(a) /\ ~IsInitiateEvent(a)
      ]_vars

(* C19: the Behaviour never emits DirectConnectionUpgradeSucceeded: no queued or
   returned action is GenerateEvent(DirectConnectionUpgradeSucceeded), also after a
   direct dial of an upgrade has established a connection; the events it emits are
   the two that start an upgrade and DirectConnectionUpgradeFailed. *)
C19_SucceededNeverEmitted ==
    \A a \in EnqueuedActions \cup ReturnedActions :
        a.type = "GenerateEvent" =>
            /\ a.event.type # DirectConnectionUpgradeSucceeded.type
            /\ a.event.type \in {"InitiateDirectConnectionUpgrade",
                                 "RemoteInitiatedDirectConnectionUpgrade",
                                 "DirectConnectionUpgradeFailed"}

\* the direct dial of an upgrade has just established a connection to the peer
C19_Witness ==
    /\ Established(last_call)
    /\ last_call.connected_point.type = "Dialer"
    /\ IsDirect(last_call.connected_point)
    /\ \E c \in 1..Len(connections) :
          /\ Started(c) /\ DialSucceeded(c)
          /\ connections[c].peer_id = last_call.peer_id
          /\ connections[last_call.connection_id].handler.type = "DirectConnection"

\* an upgrade with the peer has ended on an earlier connection
UpgradeEndedWith(peer) ==
    \E c \in 1..Len(connections) : connections[c].peer_id = peer /\ Ended(c)

(* C20: after an upgrade with peer P has ended (DirectConnectionUpgradeFailed
   emitted, or a direct dial succeeded), a new relayed inbound connection from P
   starts one from the beginning: what is enqueued is Connect with attempt 1 to the
   new connection, then InitiateDirectConnectionUpgrade, whatever attempt the
   earlier upgrade reached. *)
C20_UpgradeRestarts ==
    [][ ( /\ Established(last_call')
          /\ ListenerOnCircuit(last_call'.connected_point)
          /\ UpgradeEndedWith(last_call'.peer_id) ) =>
          SubSeq(queued_actions', Len(queued_actions) + 1, Len(queued_actions'))
              = << NotifyHandler(last_call'.peer_id, One(Len(connections) + 1),
                                 Connect(<<>>, 1)),
                   GenerateEvent(InitiateDirectConnectionUpgrade(
                       last_call'.peer_id, last_call'.connected_point.local_addr)) >>
      ]_vars

\* a relayed inbound connection has just come from a peer whose earlier upgrade
\* went through all attempts and was reported as failed
C20_Witness ==
    /\ Established(last_call)
    /\ ListenerOnCircuit(last_call.connected_point)
    /\ \E c \in 1..(last_call.connection_id - 1) :
          /\ connections[c].peer_id = last_call.peer_id
          /\ Started(c) /\ FailedEmitted(c)
    /\ Len(queued_actions) = 2
    /\ IsConnect(queued_actions[1])
    /\ queued_actions[1].event.attempt = 1

(* C21: every Connect and AcceptInboundConnect notification in queued_actions has
   an empty obs_addrs list, so the overwrite of obs_addrs by poll discards no
   address list set at enqueue time and is a fill of an empty list. *)
C21_QueuedObsAddrsEmpty ==
    \A i \in 1..Len(queued_actions) :
        CarriesObsAddrs(queued_actions[i]) => queued_actions[i].event.obs_addrs = <<>>

\* the Connect of a retry and an AcceptInboundConnect are queued together, while
\* the external addresses poll would fill in are not empty
C21_Witness ==
    /\ \E i \in 1..Len(queued_actions) :
          IsConnect(queued_actions[i]) /\ queued_actions[i].event.attempt > 1
    /\ \E i \in 1..Len(queued_actions) : IsAccept(queued_actions[i])
    /\ external_addresses # <<>>

(* C22: every Dial action the Behaviour enqueues with a DirectConnection prototype
   is built for a peer id, so the DialFailure of such a dial comes with a peer id
   and the assertion of inject_dial_failure (peer_id.expect) does not fail. *)
C22_DirectDialFailureHasPeer ==
    [][ /\ \A a \in Appended(queued_actions, queued_actions') :
              (a.type = "Dial" /\ a.handler.type = "DirectConnection") =>
                  get_peer_id(a.opts) # None
        /\ (last_call'.fn = "inject_dial_failure"
                /\ last_call'.handler.type = "DirectConnection") =>
              /\ last_call'.peer_id # None
              /\ ~panicked'
      ]_vars

\* the direct dial of a retry has just failed and was reported with the peer of the
\* relayed connection
C22_Witness ==
    /\ InitiatorDialFailed(last_call)
    /\ last_call.handler.role.attempt = 2
    /\ last_call.peer_id
          = Some(connections[last_call.handler.role.relay_connection_id].peer_id)
    /\ ~panicked

====
